---- MODULE Spec2Model ----
(***************************************************************************)
(* Outfit recommender backend: the /api/analyze request handler, the       *)
(* LangGraph pipeline of four agents (analyze_image, fetch_trends,         *)
(* synthesize_advice, generate_outfit), the shared agent state, the log    *)
(* recorder and the DSPy language-model configuration.                     *)
(*                                                                         *)
(* Conventions.  A Python str is a sequence of tokens (TLA+ strings); a    *)
(* literal of the source is one token, "." is a token of its own so that   *)
(* str.split(".") can be computed.  Python None is the reserved text None. *)
(* bytes are sequences of numbers in 0..255.  A dict is a function whose   *)
(* DOMAIN is its key set.                                                  *)
(***************************************************************************)
EXTENDS Integers, Sequences, FiniteSets, TLC

VARIABLES pc, req, state, response, current_mode, dspy_lm, clock, nreq,
          stub, visited, prev, health, received, calls

vars == <<pc, req, state, response, current_mode, dspy_lm, clock, nreq,
          stub, visited, prev, health, received, calls>>

(***************************************************************************)
(* Bounds of the model.                                                    *)
(***************************************************************************)
MaxRequests == 1

MaxClock == 1

MaxCalls == 3

(***************************************************************************)
(* Python values.                                                          *)
(***************************************************************************)
None == <<"<None>">>

EmptyDict == [k \in {} |-> <<>>]

Truthy(x) == x # None /\ x # <<>>

\* dict.get(key, default)
Get(d, key, default) == IF key \in DOMAIN d THEN d[key] ELSE default

\* s[:n]
Slice(s, n) == IF Len(s) <= n THEN s ELSE SubSeq(s, 1, n)

\* sub in s
Contains(s, sub) ==
    \E i \in 0..(Len(s) - Len(sub)) : SubSeq(s, i + 1, i + Len(sub)) = sub

\* s.split(".")[0]
RECURSIVE SplitFirst(_)
SplitFirst(s) ==
    IF s = <<>> \/ Head(s) = "." THEN <<>>
    ELSE <<Head(s)>> \o SplitFirst(Tail(s))

(***************************************************************************)
(* utils/logs.py                                                           *)
(***************************************************************************)
DetailsCap == 800

\* json.dumps(details) of the dicts the agents log.  items is the sequence
\* of <<key, rendered value>> pairs in the order the source writes the keys.
JsonStr(s) == <<"\"">> \o s \o <<"\"">>

RECURSIVE JsonItems(_)
JsonItems(items) ==
    IF items = <<>> THEN <<>>
    ELSE <<"\"", Head(items)[1], "\": ">> \o Head(items)[2]
         \o (IF Len(items) > 1 THEN <<", ">> ELSE <<>>)
         \o JsonItems(Tail(items))

JsonDumps(items) == <<"{">> \o JsonItems(items) \o <<"}">>

\* A details payload: None, a dict (given by its items) or a str.
NoDetails == [kind |-> "none"]

DictDetails(items) == [kind |-> "dict", items |-> items]

StrDetails(s) == [kind |-> "str", s |-> s]

LogEntry(agent, message, level, timestamp, details) ==
    LET entry == [agent |-> agent, message |-> message, level |-> level,
                  timestamp |-> timestamp]
    IN  CASE details.kind = "none" -> entry
          [] details.kind = "dict" ->
                entry @@ [details |-> Slice(JsonDumps(details.items), DetailsCap)]
          [] details.kind = "str" -> entry @@ [details |-> details.s]

\* variant: the entry replaces the list instead of being appended to it
append_agent_log_Replace(st, agent, message, level, details, now) ==
    [agent_logs |-> <<LogEntry(agent, message, level, now, details)>>] @@ st

\* append_agent_log(state, agent, message, level=..., details=...) at time now
\* variant: the new entry is put in front of the log
append_agent_log_Prepend(st, agent, message, level, details, now) ==
    [agent_logs |-> <<LogEntry(agent, message, level, now, details)>>
                    \o Get(st, "agent_logs", <<>>)] @@ st

append_agent_log(st, agent, message, level, details, now) ==
    [agent_logs |-> Append(Get(st, "agent_logs", <<>>),
                           LogEntry(agent, message, level, now, details))] @@ st

\* dict.update of the graph state with a node's returned mapping
\* variant: the mapping a node returns replaces the state
Merge_Replace(st, upd) == upd

Merge(st, upd) == upd @@ st

(***************************************************************************)
(* Input domains: what a client may send and what the stubbed model        *)
(* provider may answer.                                                    *)
(***************************************************************************)
FeatureKeys == <<"gender_style", "cut", "color", "fabric", "occasion">>

FeatureKeySet == {FeatureKeys[i] : i \in 1..Len(FeatureKeys)}

\* texts a model may return as trend summary or advice
ModelTexts == {<<>>, <<"Wear", "navy", ".", "Add", "a", "tie">>}
\* str(e) of the exceptions a call may raise
ErrTexts == {<<>>, <<"quota", "exceeded">>}

\* str(e) of an exception whose message is longer than the details cap: a
\* provider error that quotes the response body, one character per token
LongErrLen == 801

LongErr == [i \in 1..LongErrLen |-> "x"]

\* the result object of the structured-extraction call: a model that
\* describes the outfit, and a model that answers "unknown" throughout
VisionResults ==
    {[gender_style |-> <<"masculine">>, cut |-> <<"slim", "fit">>,
      color |-> <<"navy">>, fabric |-> <<"wool">>, occasion |-> <<"formal">>],
     [k \in FeatureKeySet |-> <<"unknown">>]}

\* an uploaded payload: its length in bytes and whether PIL can decode it
Payload(len, decodable) == [len |-> len, decodable |-> decodable]

\* a missing original_image (falsy, not an image)
NoPayload == Payload(0, FALSE)

(***************************************************************************)
(* agents/multi_model.py: analyze_image                                    *)
(***************************************************************************)
VISION_MODELS == [quick |-> "gemini-2.5-flash", deep |-> "gemini-2.5-pro"]

IMAGE_MODEL == "gemini-2.5-flash-image"

\* str(e) of the exception raised inside the try block, or None.
\* out.kind = "raise" with out.at in {"model", "describe", "extract"} is a
\* failure of genai.GenerativeModel, generate_content or the DSPy analyzer;
\* Image.open fails on a missing or undecodable original_image.
VisionFailure(st, out) ==
    IF out.kind = "raise" /\ out.at = "model" THEN out.msg
    ELSE IF "original_image" \notin DOMAIN st THEN <<"'original_image'">>
    ELSE IF ~st["original_image"].decodable
         THEN <<"cannot identify image file">>
    ELSE IF out.kind = "raise" THEN out.msg
    ELSE None

\* variant: the degraded record carries no error key
\* variant: the failure analysis leaves the occasion out
UnknownAnalysis_NoOccasion(msg) ==
    [k \in (FeatureKeySet \ {"occasion"}) \cup {"error"} |->
        IF k = "error" THEN msg ELSE <<"unknown">>]

UnknownAnalysis_NoError(msg) == [k \in FeatureKeySet |-> <<"unknown">>]

\* variant: the degraded record carries only the error key
UnknownAnalysis_ErrorOnly(msg) == [k \in {"error"} |-> msg]

UnknownAnalysis(msg) ==
    [k \in FeatureKeySet \cup {"error"} |->
        IF k = "error" THEN msg ELSE <<"unknown">>]

AnalysisItems(analysis) ==
    [i \in 1..Len(FeatureKeys) |-> <<FeatureKeys[i], JsonStr(analysis[FeatureKeys[i]])>>]

\* what analyze_image hands to its two model calls: the vision model and the
\* decoded upload to generate_content, the query to the DSPy analyzer
VisionArgs(st) ==
    LET mode == Get(st, "analysis_mode", "deep")
    IN  [vision_model |-> IF mode \in DOMAIN VISION_MODELS
                          THEN VISION_MODELS[mode] ELSE VISION_MODELS["deep"],
         image |-> st["original_image"],
         user_query |-> Get(st, "user_query", <<>>)]

\* variant: cut and color are taken from each other's output field
\* variant: the vision model is picked by the module-level mode flag
analyze_image_ByFlag(st, out, t0, t1) ==
    LET mode == Get(st, "analysis_mode", "deep")
        vision_model == IF current_mode \in DOMAIN VISION_MODELS
                        THEN VISION_MODELS[current_mode] ELSE VISION_MODELS["deep"]
        s1 == append_agent_log(st, "vision", "Starting image analysis", "info",
                  DictDetails(<< <<"mode", JsonStr(<<mode>>)>>,
                                 <<"model", JsonStr(<<vision_model>>)>> >>), t0)
        failure == VisionFailure(st, out)
        analysis == IF failure = None
                    THEN [k \in FeatureKeySet |-> out.result[k]]
                    ELSE UnknownAnalysis(failure)
        s2 == IF failure = None
              THEN append_agent_log(s1, "vision", "Completed image analysis",
                       "info", DictDetails(AnalysisItems(analysis)), t1)
              ELSE append_agent_log(s1, "vision", "Failed to analyze image",
                       "error", StrDetails(failure), t1)
    IN  [visual_analysis |-> analysis,
         agent_logs |-> Get(s2, "agent_logs", <<>>)]

analyze_image_Swapped(st, out, t0, t1) ==
    LET mode == Get(st, "analysis_mode", "deep")
        vision_model == IF mode \in DOMAIN VISION_MODELS
                        THEN VISION_MODELS[mode] ELSE VISION_MODELS["deep"]
        s1 == append_agent_log(st, "vision", "Starting image analysis", "info",
                  DictDetails(<< <<"mode", JsonStr(<<mode>>)>>,
                                 <<"model", JsonStr(<<vision_model>>)>> >>), t0)
        failure == VisionFailure(st, out)
        analysis == IF failure = None
                    THEN [k \in FeatureKeySet |->
                             out.result[IF k = "cut" THEN "color"
                                        ELSE IF k = "color" THEN "cut" ELSE k]]
                    ELSE UnknownAnalysis(failure)
        s2 == IF failure = None
              THEN append_agent_log(s1, "vision", "Completed image analysis",
                       "info", DictDetails(AnalysisItems(analysis)), t1)
              ELSE append_agent_log(s1, "vision", "Failed to analyze image",
                       "error", StrDetails(failure), t1)
    IN  [visual_analysis |-> analysis,
         agent_logs |-> Get(s2, "agent_logs", <<>>)]

analyze_image(st, out, t0, t1) ==
    LET mode == Get(st, "analysis_mode", "deep")
        vision_model == IF mode \in DOMAIN VISION_MODELS
                        THEN VISION_MODELS[mode] ELSE VISION_MODELS["deep"]
        s1 == append_agent_log(st, "vision", "Starting image analysis", "info",
                  DictDetails(<< <<"mode", JsonStr(<<mode>>)>>,
                                 <<"model", JsonStr(<<vision_model>>)>> >>), t0)
        failure == VisionFailure(st, out)
        analysis == IF failure = None
                    THEN [k \in FeatureKeySet |-> out.result[k]]
                    ELSE UnknownAnalysis(failure)
        s2 == IF failure = None
              THEN append_agent_log(s1, "vision", "Completed image analysis",
                       "info", DictDetails(AnalysisItems(analysis)), t1)
              ELSE append_agent_log(s1, "vision", "Failed to analyze image",
                       "error", StrDetails(failure), t1)
    IN  [visual_analysis |-> analysis,
         agent_logs |-> Get(s2, "agent_logs", <<>>)]

(***************************************************************************)
(* agents/trending.py: fetch_trends                                        *)
(***************************************************************************)
\* variant: the fallback is built from the defaults, not from the arguments
TrendFallback_Defaults(gender_style, occasion) ==
    <<"Current fashion trends for ", "unisex", " ", "casual",
      " wear focus on ", "quality fabrics, versatile pieces, and sustainable choices", ".", " ",
      "Neutral colors and classic silhouettes remain popular", ".">>

\* variant: the fallback text names the second at which it was written
TrendFallback_Stamped(gender_style, occasion) ==
    <<"Current fashion trends for ">> \o gender_style \o <<" ">> \o occasion
    \o <<" wear focus on ", "quality fabrics, versatile pieces, and sustainable choices", ".", " ",
         "Neutral colors and classic silhouettes remain popular", ".",
         " as of ", ToString(clock)>>

TrendFallback(gender_style, occasion) ==
    <<"Current fashion trends for ">> \o gender_style \o <<" ">> \o occasion
    \o <<" wear focus on ", "quality fabrics, versatile pieces, and sustainable choices", ".", " ",
         "Neutral colors and classic silhouettes remain popular", ".">>

\* the arguments of the trend_generator call
TrendArgs(st) ==
    LET visual == Get(st, "visual_analysis", EmptyDict)
    IN  [gender_style |-> Get(visual, "gender_style", <<"unisex">>),
         occasion |-> Get(visual, "occasion", <<"casual">>),
         user_query |-> Get(st, "user_query", <<>>)]

\* variant: the fallback is logged as an error, like the other stages' failures
fetch_trends_ErrorLevel(st, out, t0, t1) ==
    LET visual == Get(st, "visual_analysis", EmptyDict)
        user_query == Get(st, "user_query", <<>>)
        gender_style == Get(visual, "gender_style", <<"unisex">>)
        occasion == Get(visual, "occasion", <<"casual">>)
        s1 == append_agent_log(st, "trends", "Collecting trend context", "info",
                  DictDetails(<< <<"gender_style", JsonStr(gender_style)>>,
                                 <<"occasion", JsonStr(occasion)>>,
                                 <<"mode", JsonStr(<<Get(st, "analysis_mode", "deep")>>)>> >>),
                  t0)
        trends == IF out.kind = "ok" THEN out.text
                  ELSE TrendFallback(gender_style, occasion)
        s2 == IF out.kind = "ok"
              THEN append_agent_log(s1, "trends", "Produced trend summary",
                       "info", StrDetails(Slice(trends, 300)), t1)
              ELSE append_agent_log(s1, "trends",
                       "Failed to fetch trends; using fallback", "error",
                       StrDetails(out.msg), t1)
    IN  [trend_summary |-> trends,
         agent_logs |-> Get(s2, "agent_logs", <<>>)]

fetch_trends(st, out, t0, t1) ==
    LET visual == Get(st, "visual_analysis", EmptyDict)
        user_query == Get(st, "user_query", <<>>)
        gender_style == Get(visual, "gender_style", <<"unisex">>)
        occasion == Get(visual, "occasion", <<"casual">>)
        s1 == append_agent_log(st, "trends", "Collecting trend context", "info",
                  DictDetails(<< <<"gender_style", JsonStr(gender_style)>>,
                                 <<"occasion", JsonStr(occasion)>>,
                                 <<"mode", JsonStr(<<Get(st, "analysis_mode", "deep")>>)>> >>),
                  t0)
        trends == IF out.kind = "ok" THEN out.text
                  ELSE TrendFallback(gender_style, occasion)
        s2 == IF out.kind = "ok"
              THEN append_agent_log(s1, "trends", "Produced trend summary",
                       "info", StrDetails(Slice(trends, 300)), t1)
              ELSE append_agent_log(s1, "trends",
                       "Failed to fetch trends; using fallback", "warning",
                       StrDetails(out.msg), t1)
    IN  [trend_summary |-> trends,
         agent_logs |-> Get(s2, "agent_logs", <<>>)]

(***************************************************************************)
(* agents/analysis.py: synthesize_advice                                   *)
(***************************************************************************)
\* variant: the apology quotes the user's query
Apology_Personal ==
    <<"Unable to answer ">> \o Get(state, "user_query", <<>>)
    \o <<" at this time", ".">>

Apology ==
    <<"Unable to generate personalized advice at this time", ".", " ",
      "Please try again later or consult with a fashion professional", ".">>

\* keyword arguments of the advisor call
AdvisorArgs(st) ==
    LET visual == Get(st, "visual_analysis", EmptyDict)
    IN  [user_query |-> Get(st, "user_query", <<>>),
         gender_style |-> Get(visual, "gender_style", <<"unisex">>),
         cut |-> Get(visual, "cut", <<"unknown">>),
         color |-> Get(visual, "color", <<"unknown">>),
         fabric |-> Get(visual, "fabric", <<"unknown">>),
         occasion |-> Get(visual, "occasion", <<"casual">>),
         trends |-> Get(st, "trend_summary", <<>>)]

\* variant: the advisor also returns the trend text, shortened to what it
\* quoted in its details
synthesize_advice_Clobber(st, out, t0, t1) ==
    LET s1 == append_agent_log(st, "advisor", "Generating styling advice", "info",
                  DictDetails(<< <<"mode", JsonStr(<<Get(st, "analysis_mode", "deep")>>)>> >>),
                  t0)
        advice == IF out.kind = "ok" THEN out.text ELSE Apology
        s2 == IF out.kind = "ok"
              THEN append_agent_log(s1, "advisor", "Completed styling advice",
                       "info", StrDetails(Slice(advice, 300)), t1)
              ELSE append_agent_log(s1, "advisor",
                       "Failed to generate styling advice", "error",
                       StrDetails(out.msg), t1)
    IN  [final_report |-> advice,
         trend_summary |-> Slice(AdvisorArgs(st).trends, 1),
         agent_logs |-> Get(s2, "agent_logs", <<>>)]

synthesize_advice(st, out, t0, t1) ==
    LET s1 == append_agent_log(st, "advisor", "Generating styling advice", "info",
                  DictDetails(<< <<"mode", JsonStr(<<Get(st, "analysis_mode", "deep")>>)>> >>),
                  t0)
        advice == IF out.kind = "ok" THEN out.text ELSE Apology
        s2 == IF out.kind = "ok"
              THEN append_agent_log(s1, "advisor", "Completed styling advice",
                       "info", StrDetails(Slice(advice, 300)), t1)
              ELSE append_agent_log(s1, "advisor",
                       "Failed to generate styling advice", "error",
                       StrDetails(out.msg), t1)
    IN  [final_report |-> advice,
         agent_logs |-> Get(s2, "agent_logs", <<>>)]

(***************************************************************************)
(* base64 (standard alphabet, "=" padding) over bytes in 0..255; a base64  *)
(* str is a sequence of one-character tokens.                              *)
(***************************************************************************)
B64Alphabet ==
    <<
      "A", "B", "C", "D", "E", "F", "G", "H", "I", "J", "K", "L", "M", "N", "O", "P",
      "Q", "R", "S", "T", "U", "V", "W", "X", "Y", "Z", "a", "b", "c", "d", "e", "f",
      "g", "h", "i", "j", "k", "l", "m", "n", "o", "p", "q", "r", "s", "t", "u", "v",
      "w", "x", "y", "z", "0", "1", "2", "3", "4", "5", "6", "7", "8", "9", "+", "/"
    >>

B64Char(n) == B64Alphabet[n + 1]

B64Index(c) == CHOOSE n \in 0..63 : B64Alphabet[n + 1] = c

IsB64Char(c) == \E n \in 0..63 : B64Alphabet[n + 1] = c

\* base64.b64encode(b).decode("utf-8")
RECURSIVE B64Encode(_)
B64Encode(b) ==
    IF b = <<>> THEN <<>>
    ELSE IF Len(b) = 1
    THEN <<B64Char(b[1] \div 4), B64Char((b[1] % 4) * 16), "=", "=">>
    ELSE IF Len(b) = 2
    THEN <<B64Char(b[1] \div 4), B64Char((b[1] % 4) * 16 + b[2] \div 16),
           B64Char((b[2] % 16) * 4), "=">>
    ELSE <<B64Char(b[1] \div 4), B64Char((b[1] % 4) * 16 + b[2] \div 16),
           B64Char((b[2] % 16) * 4 + b[3] \div 64), B64Char(b[3] % 64)>>
         \o B64Encode(SubSeq(b, 4, Len(b)))

\* the alphabet characters of s before its first "=", other characters
\* discarded, as numbers 0..63
RECURSIVE B64Sextets(_)
B64Sextets(s) ==
    IF s = <<>> \/ Head(s) = "=" THEN <<>>
    ELSE IF IsB64Char(Head(s)) THEN <<B64Index(Head(s))>> \o B64Sextets(Tail(s))
    ELSE B64Sextets(Tail(s))

RECURSIVE B64Pads(_)
B64Pads(s) ==
    IF s = <<>> THEN 0
    ELSE (IF Head(s) = "=" THEN 1 ELSE 0) + B64Pads(Tail(s))

RECURSIVE B64Bytes(_)
B64Bytes(q) ==
    IF Len(q) < 2 THEN <<>>
    ELSE IF Len(q) = 2 THEN <<q[1] * 4 + q[2] \div 16>>
    ELSE IF Len(q) = 3
    THEN <<q[1] * 4 + q[2] \div 16, (q[2] % 16) * 16 + q[3] \div 4>>
    ELSE <<q[1] * 4 + q[2] \div 16, (q[2] % 16) * 16 + q[3] \div 4,
           (q[3] % 4) * 64 + q[4]>> \o B64Bytes(SubSeq(q, 5, Len(q)))

\* base64.b64decode(s) raises binascii.Error (incorrect padding)
B64DecodeRaises(s) ==
    LET n == Len(B64Sextets(s)) % 4
    IN  \/ n = 1
        \/ n = 2 /\ B64Pads(s) < 2
        \/ n = 3 /\ B64Pads(s) < 1

\* base64.b64decode(s) when it does not raise
B64Decode(s) == B64Bytes(B64Sextets(s))

(***************************************************************************)
(* agents/multi_model.py: image extraction and generation                  *)
(***************************************************************************)
NoneBytes == <<-1>>

TruthyBytes(b) == b # NoneBytes /\ b # <<>>

\* _download_file_bytes: remote is what the Files API and the HTTP fetch do
\* for the uri: raise, a file reference without uri, or the bytes read
_download_file_bytes(remote) ==
    IF remote.kind = "ok" THEN remote.data ELSE NoneBytes

\* A part: inline is [kind |-> "none"], [kind |-> "bytes", data, mime] or
\* [kind |-> "str", data, mime]; file is [kind |-> "none"] or
\* [kind |-> "uri", mime, remote].
RECURSIVE ExtractFromParts(_)
ExtractFromParts(parts) ==
    IF parts = <<>> THEN <<NoneBytes, None>>
    ELSE LET part == Head(parts)
             inline == part.inline
             file == part.file
             hasInline == inline.kind # "none" /\ inline.data # <<>>
             fileResult ==
                 IF file.kind = "uri" /\ TruthyBytes(_download_file_bytes(file.remote))
                 THEN <<_download_file_bytes(file.remote), file.mime>>
                 ELSE ExtractFromParts(Tail(parts))
         IN  IF hasInline /\ inline.kind = "bytes" THEN <<inline.data, inline.mime>>
             ELSE IF hasInline /\ inline.kind = "str" /\ ~B64DecodeRaises(inline.data)
             THEN <<B64Decode(inline.data), inline.mime>>
             ELSE fileResult

RECURSIVE Flatten(_)
Flatten(lists) ==
    IF lists = <<>> THEN <<>> ELSE Head(lists) \o Flatten(Tail(lists))

\* A response is NoResponse (falsy) or [candidates |-> sequence of parts
\* lists, one per candidate with content, parts |-> top-level parts].
NoResponse == [kind |-> "none"]

_extract_image_bytes(resp) ==
    IF resp = NoResponse THEN <<NoneBytes, None>>
    ELSE ExtractFromParts(Flatten(resp.candidates) \o resp.parts)

DataUrl(mime, encoded) == <<"data:">> \o mime \o <<";base64,">> \o encoded

\* the list passed to generate_content
GenerationMessages(prompt, base_image, stylist_advice) ==
    <<"identity-preservation directive">>
    \o (IF Truthy(stylist_advice) THEN <<"Styling guidance to apply:">> ELSE <<>>)
    \o <<"prompt">>
    \o (IF base_image.len > 0 /\ base_image.decodable
        THEN <<"reference_image">> ELSE <<>>)

\* variant: the emptiness check on the extracted bytes is missing
\* variant: the data URL is always tagged image/png
_generate_image_from_gemini_AlwaysPng(prompt, base_image, stylist_advice, out) ==
    IF out.kind = "raise" THEN <<None, None>>
    ELSE LET r == _extract_image_bytes(out.response)
             image_bytes == r[1]
             mime_type == <<"image/png">>
         IN  IF ~TruthyBytes(image_bytes) THEN <<None, None>>
             ELSE <<DataUrl(mime_type, B64Encode(image_bytes)), mime_type>>

_generate_image_from_gemini_NoCheck(prompt, base_image, stylist_advice, out) ==
    IF out.kind = "raise" THEN <<None, None>>
    ELSE LET r == _extract_image_bytes(out.response)
             image_bytes == IF r[1] = NoneBytes THEN <<>> ELSE r[1]
             mime_type == IF Truthy(r[2]) THEN r[2] ELSE <<"image/png">>
         IN  <<DataUrl(mime_type, B64Encode(image_bytes)), mime_type>>

\* out is [kind |-> "raise", msg] when GenerativeModel or generate_content
\* raises, else [kind |-> "response", response]
_generate_image_from_gemini(prompt, base_image, stylist_advice, out) ==
    IF out.kind = "raise" THEN <<None, None>>
    ELSE LET r == _extract_image_bytes(out.response)
             image_bytes == r[1]
             mime_type == IF Truthy(r[2]) THEN r[2] ELSE <<"image/png">>
         IN  IF ~TruthyBytes(image_bytes) THEN <<None, None>>
             ELSE <<DataUrl(mime_type, B64Encode(image_bytes)), mime_type>>

GenerationPrompt(advice, visual, query) ==
    <<"Professional fashion editorial photography:", "- Outfit: ">>
    \o (IF Truthy(advice) THEN SplitFirst(advice) ELSE <<"Professional outfit">>)
    \o <<"- Style: ">> \o Get(visual, "cut", <<"modern tailored fit">>)
    \o <<"- Colors: ">> \o Get(visual, "color", <<"neutral professional tones">>)
    \o <<"- Fabric: ">> \o Get(visual, "fabric", <<"high-quality materials">>)
    \o <<"- Occasion: ">> \o Get(visual, "occasion", <<"professional setting">>)
    \o <<"- Personal request: ">>
    \o (IF Truthy(query) THEN query ELSE <<"Tailor to the user's stated preference">>)
    \o <<"- IMPORTANT: ...", "- Setting: ...", "- Shot: ...", "- Mood: ...",
         "- Reference: ...">>

\* str(e) of an Exception raised inside the try block of generate_outfit, or
\* None.  With a str final_report and user_query and a dict visual_analysis
\* nothing in the prompt construction raises, and
\* _generate_image_from_gemini catches every Exception itself.
GenerateFailure(st) == None

generate_outfit(st, out, t0, t1) ==
    LET s0 == Merge(st, [image_generation_error |-> None])
        s1 == append_agent_log(s0, "generator", "Preparing outfit visualization",
                  "info",
                  DictDetails(<< <<"mode", JsonStr(<<Get(s0, "analysis_mode", "deep")>>)>>,
                                 <<"has_advice",
                                   IF Truthy(Get(s0, "final_report", None))
                                   THEN <<"true">> ELSE <<"false">> >> >>),
                  t0)
        advice == Get(s1, "final_report", <<>>)
        visual == Get(s1, "visual_analysis", EmptyDict)
        query == Get(s1, "user_query", <<>>)
        failure == GenerateFailure(s1)
        generation_prompt == GenerationPrompt(advice, visual, query)
        gen == _generate_image_from_gemini(generation_prompt,
                   Get(s1, "original_image", NoPayload), advice, out)
        s2 == IF failure # None
              THEN append_agent_log(
                       Merge(s1, [image_generation_error |-> failure]),
                       "generator", "Failed to generate outfit visualization",
                       "error", StrDetails(failure), t1)
              ELSE IF Truthy(gen[1])
              THEN append_agent_log(s1, "generator",
                       "Generated upgraded outfit image", "info",
                       DictDetails(<< <<"mime_type",
                           JsonStr(IF Truthy(gen[2]) THEN gen[2] ELSE <<"unknown">>)>> >>),
                       t1)
              ELSE append_agent_log(
                       Merge(s1, [image_generation_error |->
                                    <<"Gemini image generation returned no content">>]),
                       "generator", "Gemini image generation returned no content",
                       "warning", NoDetails, t1)
    IN  [generated_image_url |->
            IF failure = None /\ Truthy(gen[1]) THEN gen[1] ELSE None,
         generation_prompt |-> IF failure = None THEN generation_prompt ELSE <<>>,
         image_generation_error |-> Get(s2, "image_generation_error", None),
         agent_logs |-> Get(s2, "agent_logs", <<>>)]

(***************************************************************************)
(* agents/config.py                                                        *)
(***************************************************************************)
LM_MAP == [quick |-> "gemini/gemini-2.5-flash", deep |-> "gemini/gemini-2.5-pro"]

NoMode == "<None>"

NoLM == "<None>"

\* str.lower() on the mode tokens a client may send
\* variant: the text is compared as it was sent
Lower_AsSent(tok) == tok

Lower(tok) ==
    CASE tok = "QUICK" -> "quick"
      [] tok = "Quick" -> "quick"
      [] tok = "DEEP" -> "deep"
      [] tok = "Deep" -> "deep"
      [] OTHER -> tok

\* configure_lm(mode) from the module state cur = [mode, lm]; lm_ok tells
\* whether dspy.LM and dspy.configure succeed.  The result is the module
\* state after the call and whether the call raised.
\* variant: the flag is set before the model is built and installed, and
\* stays set when that raises
\* variant: the model is built and installed on every call
configure_lm_Always(cur, mode, lm_ok) ==
    LET lowered == Lower(mode)
        normalized == IF lowered \in DOMAIN LM_MAP THEN lowered ELSE "deep"
    IN  IF lm_ok
        THEN [mode |-> normalized, lm |-> LM_MAP[normalized], raised |-> FALSE]
        ELSE [mode |-> cur.mode, lm |-> cur.lm, raised |-> TRUE]

configure_lm_FlagFirst(cur, mode, lm_ok) ==
    LET lowered == Lower(mode)
        normalized == IF lowered \in DOMAIN LM_MAP THEN lowered ELSE "deep"
    IN  IF cur.mode = normalized
        THEN [mode |-> cur.mode, lm |-> cur.lm, raised |-> FALSE]
        ELSE IF lm_ok
        THEN [mode |-> normalized, lm |-> LM_MAP[normalized], raised |-> FALSE]
        ELSE [mode |-> normalized, lm |-> cur.lm, raised |-> TRUE]

configure_lm(cur, mode, lm_ok) ==
    LET lowered == Lower(mode)
        normalized == IF lowered \in DOMAIN LM_MAP THEN lowered ELSE "deep"
    IN  IF cur.mode = normalized
        THEN [mode |-> cur.mode, lm |-> cur.lm, raised |-> FALSE]
        ELSE IF lm_ok
        THEN [mode |-> normalized, lm |-> LM_MAP[normalized], raised |-> FALSE]
        ELSE [mode |-> cur.mode, lm |-> cur.lm, raised |-> TRUE]

(***************************************************************************)
(* agents/supervisor.py: the graph                                         *)
(***************************************************************************)
END == "__end__"

Nodes == {"analyze_image", "fetch_trends", "synthesize_advice", "generate_outfit"}

EntryPoint == "analyze_image"

\* variant: the edge out of analyze_image bypasses fetch_trends
Edges_SkipTrends ==
    [analyze_image |-> "synthesize_advice",
     fetch_trends |-> "synthesize_advice",
     synthesize_advice |-> "generate_outfit",
     generate_outfit |-> "__end__"]

Edges ==
    [analyze_image |-> "fetch_trends",
     fetch_trends |-> "synthesize_advice",
     synthesize_advice |-> "generate_outfit",
     generate_outfit |-> END]

(***************************************************************************)
(* routers/analyze.py                                                      *)
(***************************************************************************)
\* variant: ten megabytes counted in powers of ten
MAX_FILE_SIZE_Decimal == 10 * 1000 * 1000

MAX_FILE_SIZE == 10 * 1024 * 1024

ALLOWED_EXTENSIONS == {"png", "jpg", "jpeg", "gif", "webp"}

DEFAULT_QUERY == <<"What should I wear for a wedding?">>

\* str.lower() on the extension tokens a client may send
LowerExt(tok) ==
    CASE tok = "JPG" -> "jpg"
      [] tok = "PNG" -> "png"
      [] OTHER -> tok

\* "." in filename and filename.rsplit(".", 1)[1].lower() in ALLOWED_EXTENSIONS
\* variant: any name with a dot in it is allowed
_allowed_file_AnyDot(filename) ==
    \E i \in 1..Len(filename) : filename[i] = "."

_allowed_file(filename) ==
    /\ \E i \in 1..Len(filename) : filename[i] = "."
    /\ LET last == CHOOSE i \in 1..Len(filename) :
                       /\ filename[i] = "."
                       /\ \A j \in (i + 1)..Len(filename) : filename[j] # "."
           ext == SubSeq(filename, last + 1, Len(filename))
       IN  Len(ext) = 1 /\ LowerExt(ext[1]) \in ALLOWED_EXTENSIONS

\* A form is [has_image, filename, payload, query, mode]; query and mode are
\* None / NoMode when the field is absent.
_validate_request(form) ==
    IF ~form.has_image
    THEN [ok |-> FALSE, error |-> <<"No image file provided">>, status |-> 400]
    ELSE IF form.filename = <<>>
    THEN [ok |-> FALSE, error |-> <<"No file selected">>, status |-> 400]
    ELSE IF ~_allowed_file(form.filename)
    THEN [ok |-> FALSE, error |-> <<"Invalid file type. Allowed: ">>, status |-> 400]
    ELSE [ok |-> TRUE,
          user_query |-> IF form.query = None THEN DEFAULT_QUERY ELSE form.query]

InitialState(image_bytes, user_query, analysis_mode) ==
    [original_image |-> image_bytes,
     user_query |-> user_query,
     visual_analysis |-> EmptyDict,
     trend_summary |-> <<>>,
     final_report |-> <<>>,
     generated_image_url |-> <<>>,
     generation_prompt |-> <<>>,
     agent_logs |-> <<>>,
     analysis_mode |-> analysis_mode,
     image_generation_error |-> None]

\* variant: the response reads the log under a key the state does not have
\* variant: the final state is returned as it is
ResponseData_WholeState(result, analysis_mode) == result

ResponseData_NoLogs(result, analysis_mode) ==
    [visual_analysis |-> Get(result, "visual_analysis", None),
     trend_summary |-> Get(result, "trend_summary", None),
     final_report |-> Get(result, "final_report", None),
     generated_image_url |-> Get(result, "generated_image_url", None),
     agent_logs |-> Get(result, "agent_log", <<>>),
     analysis_mode |-> analysis_mode,
     generation_prompt |-> Get(result, "generation_prompt", None),
     image_generation_error |-> Get(result, "image_generation_error", None)]

ResponseData(result, analysis_mode) ==
    [visual_analysis |-> Get(result, "visual_analysis", None),
     trend_summary |-> Get(result, "trend_summary", None),
     final_report |-> Get(result, "final_report", None),
     generated_image_url |-> Get(result, "generated_image_url", None),
     agent_logs |-> Get(result, "agent_logs", <<>>),
     analysis_mode |-> analysis_mode,
     generation_prompt |-> Get(result, "generation_prompt", None),
     image_generation_error |-> Get(result, "image_generation_error", None)]

(***************************************************************************)
(* What a client sends and what the stubbed dependencies answer.           *)
(***************************************************************************)
Filenames == {<<>>, <<"look">>, <<"look", ".", "JPG">>, <<"look", ".", "exe">>,
              <<"look", ".", "png", ".", "txt">>}

Payloads == {Payload(MAX_FILE_SIZE, TRUE), Payload(0, FALSE),
             Payload(MAX_FILE_SIZE + 1, TRUE)}

Queries == {None, <<>>}

Modes == {NoMode, "quick", "QUICK", "deep", "fast"}

Forms ==
    {[has_image |-> FALSE, filename |-> <<>>, payload |-> NoPayload,
      query |-> None, mode |-> NoMode]}
    \cup [has_image : {TRUE}, filename : Filenames, payload : Payloads,
          query : Queries, mode : Modes]

NotCalled == [kind |-> "not_called"]

Pending == [kind |-> "pending"]

VisionOutcomes(st) ==
    IF ~st["original_image"].decodable THEN {NotCalled}
    ELSE {[kind |-> "ok", result |-> r] : r \in VisionResults}
         \cup {[kind |-> "raise", at |-> a, msg |-> m] :
                  a \in {"describe", "extract"}, m \in ErrTexts}
         \cup {[kind |-> "raise", at |-> "describe", msg |-> LongErr]}

TextOutcomes ==
    {[kind |-> "ok", text |-> t] : t \in ModelTexts}
    \cup {[kind |-> "raise", msg |-> m] : m \in ErrTexts}

TextPart == [inline |-> [kind |-> "none"], file |-> [kind |-> "none"]]

BytesPart(data, mime) ==
    [inline |-> [kind |-> "bytes", data |-> data, mime |-> mime],
     file |-> [kind |-> "none"]]

StrPart(data, mime) ==
    [inline |-> [kind |-> "str", data |-> data, mime |-> mime],
     file |-> [kind |-> "none"]]

FilePart(mime, remote) ==
    [inline |-> [kind |-> "none"],
     file |-> [kind |-> "uri", mime |-> mime, remote |-> remote]]

PngBytes == <<137, 80, 78, 71>>

ImageResponses ==
    {NoResponse,
     [candidates |-> <<>>, parts |-> <<>>],
     [candidates |-> << <<TextPart>> >>, parts |-> <<>>],
     [candidates |-> << <<FilePart(<<"image/webp">>, [kind |-> "raise"])>> >>,
      parts |-> <<>>],
     [candidates |-> << <<TextPart, BytesPart(PngBytes, <<"image/jpeg">>)>> >>,
      parts |-> <<>>],
     [candidates |-> <<>>, parts |-> <<BytesPart(PngBytes, None)>>],
     [candidates |-> << <<StrPart(<<"Q">>, <<"image/png">>)>> >>, parts |-> <<>>],
     [candidates |-> << <<StrPart(<<"=", "=", "=", "=">>, <<"image/png">>),
                          BytesPart(PngBytes, <<"image/png">>)>> >>,
      parts |-> <<>>]}

ImageOutcomes ==
    {[kind |-> "response", response |-> r] : r \in ImageResponses}
    \cup {[kind |-> "raise", msg |-> m] : m \in ErrTexts}

(***************************************************************************)
(* The state machine.                                                      *)
(***************************************************************************)
NoResponseYet == [status |-> 0, body |-> EmptyDict]

NoRequest == [analysis_mode |-> NoMode]

NoStub == [n \in Nodes |-> Pending]

\* the inputs, stub answers and outputs of an earlier run, kept only when a
\* request is repeated against the same stub
NoPrev == [kind |-> "none"]

\* the form of the request being handled, kept only where the raw fields are
\* compared with what the handler made of them
NoForm == [has_image |-> FALSE]

Init ==
    /\ pc = "idle"
    /\ req = NoRequest
    /\ state = EmptyDict
    /\ response = NoResponseYet
    /\ current_mode = NoMode
    /\ dspy_lm = NoLM
    /\ clock = 0
    /\ nreq = 0
    /\ stub = NoStub
    /\ visited = <<>>
    /\ prev = NoPrev
    /\ health = NoResponseYet
    /\ received = NoForm
    /\ calls = <<>>

\* the locals of analyze_outfit: of a request answered 400 the uploaded file
\* as far as it was looked at, of a request past the checks the file, its
\* bytes, the query and the normalised mode
Rejected(form) ==
    [has_image |-> form.has_image, filename |-> form.filename,
     image_bytes |-> form.payload]

Accepted(form, user_query, analysis_mode) ==
    [has_image |-> form.has_image, filename |-> form.filename,
     image_bytes |-> form.payload, user_query |-> user_query,
     analysis_mode |-> analysis_mode]

\* analyze_outfit up to agent_graph.invoke: validation, size check, mode
\* normalisation, configure_lm, initial state
analyze_outfit(form, lm_ok) ==
    /\ pc = "idle"
    /\ nreq < MaxRequests
    /\ nreq' = nreq + 1
    /\ UNCHANGED <<clock, stub, visited, prev, health>>
    /\    LET v == _validate_request(form)
              lowered == Lower(IF form.mode = NoMode THEN "deep" ELSE form.mode)
              analysis_mode == IF lowered \in {"quick", "deep"} THEN lowered ELSE "deep"
              cfg == configure_lm([mode |-> current_mode, lm |-> dspy_lm],
                                  analysis_mode, lm_ok)
          IN  IF ~v.ok
              THEN /\ response' = [status |-> v.status, body |-> [error |-> v.error]]
                   /\ pc' = "responded"
                   /\ req' = Rejected(form)
                   /\ state' = EmptyDict
                   /\ UNCHANGED <<current_mode, dspy_lm>>
              ELSE IF form.payload.len > MAX_FILE_SIZE
              THEN /\ response' = [status |-> 400,
                                   body |-> [error |-> <<"File size ", "exceeds 10MB limit">>]]
                   /\ pc' = "responded"
                   /\ req' = Rejected(form)
                   /\ state' = EmptyDict
                   /\ UNCHANGED <<current_mode, dspy_lm>>
              ELSE /\ current_mode' = cfg.mode
                   /\ dspy_lm' = cfg.lm
                   /\ IF cfg.raised
                      THEN /\ response' = [status |-> 500,
                                           body |-> [error |-> <<"Internal server error">>,
                                                     details |-> <<"LM configuration failed">>]]
                           /\ pc' = "responded"
                           /\ req' = Accepted(form, v.user_query, analysis_mode)
                           /\ state' = EmptyDict
                      ELSE /\ response' = NoResponseYet
                           /\ pc' = EntryPoint
                           /\ req' = Accepted(form, v.user_query, analysis_mode)
                           /\ state' = InitialState(form.payload, v.user_query,
                                                    analysis_mode)

\* a request arrives: any form, and the language model can be built or not
ReceiveRequest ==
    \E form \in Forms, lm_ok \in BOOLEAN :
        analyze_outfit(form, lm_ok) /\ UNCHANGED <<received, calls>>

\* variant: a failed model call escapes the node and aborts the run, the
\* handler answering 500
RunNode_Abort(node, update, out, d) ==
    /\ pc = node
    /\ clock + d <= MaxClock
    /\ clock' = clock + d
    /\ stub' = [stub EXCEPT ![node] = out @@ [lm |-> dspy_lm]]
    /\ IF out.kind = "raise"
       THEN /\ pc' = "responded"
            /\ response' = [status |-> 500,
                            body |-> [error |-> <<"Internal server error">>]]
            /\ UNCHANGED <<state, visited>>
       ELSE /\ state' = Merge(state, update)
            /\ pc' = Edges[node]
            /\ visited' = Append(visited, node)
            /\ UNCHANGED response
    /\ UNCHANGED <<req, current_mode, dspy_lm, nreq, prev, health, received, calls>>

\* one node of the graph runs on the current state; its returned mapping is
\* merged into the state and control follows the node's edge.  The stub
\* records what its calls answered and the language model DSPy was
\* configured with while the node ran.
RunNode(node, update, out, d) ==
    /\ pc = node
    /\ clock + d <= MaxClock
    /\ state' = Merge(state, update)
    /\ clock' = clock + d
    /\ pc' = Edges[node]
    /\ visited' = Append(visited, node)
    /\ stub' = [stub EXCEPT ![node] = out @@ [lm |-> dspy_lm]]
    /\ UNCHANGED <<req, response, current_mode, dspy_lm, nreq, prev, health,
                   received, calls>>

AnalyzeImage ==
    /\ pc = "analyze_image"
    /\ \E out \in VisionOutcomes(state), d \in 0..1 :
          RunNode("analyze_image", analyze_image(state, out, clock, clock + d), out, d)

FetchTrends ==
    \E out \in TextOutcomes, d \in 0..1 :
        RunNode("fetch_trends", fetch_trends(state, out, clock, clock + d), out, d)

SynthesizeAdvice ==
    \E out \in TextOutcomes, d \in 0..1 :
        RunNode("synthesize_advice",
                synthesize_advice(state, out, clock, clock + d), out, d)

GenerateOutfit ==
    \E out \in ImageOutcomes, d \in 0..1 :
        RunNode("generate_outfit",
                generate_outfit(state, out, clock, clock + d), out, d)

\* analyze_outfit after agent_graph.invoke returns
Respond ==
    /\ pc = END
    /\ response' = [status |-> 200, body |-> ResponseData(state, req.analysis_mode)]
    /\ pc' = "responded"
    /\ UNCHANGED <<req, state, current_mode, dspy_lm, clock, nreq, stub, visited,
                   prev, health, received, calls>>

\* the response has been sent: the request context and the Pipeline State
\* of the request are discarded, the module-level configuration stays
TearDown ==
    /\ pc = "responded"
    /\ pc' = "idle"
    /\ req' = NoRequest
    /\ state' = EmptyDict
    /\ response' = NoResponseYet
    /\ stub' = NoStub
    /\ visited' = <<>>
    /\ UNCHANGED <<current_mode, dspy_lm, clock, nreq, prev, health, received, calls>>

Next ==
    \/ ReceiveRequest
    \/ AnalyzeImage
    \/ FetchTrends
    \/ SynthesizeAdvice
    \/ GenerateOutfit
    \/ Respond
    \/ TearDown

Spec == Init /\ [][Next]_vars

\* A request is served by one thread that runs the handler to its end: while
\* control is at a node of the graph or at its end, the thread takes its next
\* step, which moves control on.  (Every node has a step in every state: its
\* outcome set is not empty and no time need elapse.)
Advance ==
    /\ pc \in Nodes \cup {END}
    /\ pc' \in (Nodes \cup {END, "responded"}) \ {pc}

FairSpec == Spec /\ WF_pc(Advance)

(***************************************************************************)
(* Properties.                                                             *)
(***************************************************************************)
(***************************************************************************)
(* Concurrent requests.  The server handles requests on several threads;   *)
(* _current_mode and the language model DSPy is configured with belong to  *)
(* the process.  Of a request that runs beside the one followed here, the  *)
(* only step that writes process state is its call of configure_lm         *)
(* (analyze.py:107-111); it is taken at any point of the followed          *)
(* request.  Time is left out of this specification, and of the answers of  *)
(* a model call one success and one failure are kept.                      *)
(***************************************************************************)
Plain(out) ==
    /\ out.kind = "raise" => out.msg = <<>>
    /\ "at" \in DOMAIN out => out.at = "extract"
    /\ "text" \in DOMAIN out => out.text # <<>>
    /\ "result" \in DOMAIN out => out.result["gender_style"] # <<"unknown">>
    /\ "response" \in DOMAIN out => out.response = NoResponse

PeerConfigure ==
    /\ \E mode \in Modes, lm_ok \in BOOLEAN :
          LET lowered == Lower(IF mode = NoMode THEN "deep" ELSE mode)
              analysis_mode == IF lowered \in {"quick", "deep"} THEN lowered ELSE "deep"
              cfg == configure_lm([mode |-> current_mode, lm |-> dspy_lm],
                                  analysis_mode, lm_ok)
          IN  /\ current_mode' = cfg.mode
              /\ dspy_lm' = cfg.lm
    /\ UNCHANGED <<pc, req, state, response, clock, nreq, stub, visited, prev, health,
                   received, calls>>

ConcNext ==
    \/ ReceiveRequest
    \/ AnalyzeImage /\ UNCHANGED clock /\ Plain(stub'["analyze_image"])
    \/ FetchTrends /\ UNCHANGED clock /\ Plain(stub'["fetch_trends"])
    \/ SynthesizeAdvice /\ UNCHANGED clock /\ Plain(stub'["synthesize_advice"])
    \/ GenerateOutfit /\ UNCHANGED clock /\ Plain(stub'["generate_outfit"])
    \/ Respond
    \/ TearDown
    \/ PeerConfigure

ConcSpec == Init /\ [][ConcNext]_vars

(***************************************************************************)
(* The same request twice.  After a request has been answered with 200 the *)
(* client sends it again; the stub of the model dependency is              *)
(* deterministic: asked again under the same configured model, a call      *)
(* answers as it did in the first run.  The first run takes place within  *)
(* one second; the second run takes whatever time it takes.                *)
(***************************************************************************)
OutputFields == {"visual_analysis", "trend_summary", "final_report"}

\* the first request is over: its inputs, the stub's answers and the result
\* of the run are kept for the comparison
Remember ==
    /\ pc = "responded"
    /\ response.status = 200
    /\ prev = NoPrev
    /\ prev' = [kind |-> "first", req |-> req, stub |-> stub,
                outputs |-> [f \in OutputFields |-> state[f]],
                finished |-> state["agent_logs"][Len(state["agent_logs"])].timestamp]
    /\ pc' = "idle"
    /\ req' = NoRequest
    /\ state' = EmptyDict
    /\ response' = NoResponseYet
    /\ stub' = NoStub
    /\ visited' = <<>>
    /\ UNCHANGED <<current_mode, dspy_lm, clock, nreq, health, received, calls>>

\* analyze_outfit for the request of the first run: the same file passes the
\* same checks, the same mode is configured, the same state is built
Repeat ==
    /\ pc = "idle"
    /\ prev.kind = "first"
    /\ prev' = [prev EXCEPT !.kind = "second"]
    /\ UNCHANGED <<clock, nreq, stub, visited, health, received, calls>>
    /\ \E lm_ok \in BOOLEAN :
          LET first == prev.req
              cfg == configure_lm([mode |-> current_mode, lm |-> dspy_lm],
                                  first.analysis_mode, lm_ok)
          IN  /\ current_mode' = cfg.mode
              /\ dspy_lm' = cfg.lm
              /\ req' = first
              /\ IF cfg.raised
                 THEN /\ response' = [status |-> 500,
                                      body |-> [error |-> <<"Internal server error">>,
                                                details |-> <<"LM configuration failed">>]]
                      /\ pc' = "responded"
                      /\ state' = EmptyDict
                 ELSE /\ response' = NoResponseYet
                      /\ pc' = EntryPoint
                      /\ state' = InitialState(first.image_bytes, first.user_query,
                                               first.analysis_mode)

\* the stub is deterministic: in the second run a node's calls, made under
\* the model they were made under in the first run, answer as they did then
SameAnswer(node) ==
    (prev.kind = "second" /\ prev.stub[node].lm = dspy_lm) =>
        stub'[node] = prev.stub[node]

WithinOneSecond == prev = NoPrev => UNCHANGED clock

TwiceNext ==
    \/ ReceiveRequest /\ prev = NoPrev
    \/ AnalyzeImage /\ SameAnswer("analyze_image") /\ WithinOneSecond
    \/ FetchTrends /\ SameAnswer("fetch_trends") /\ WithinOneSecond
    \/ SynthesizeAdvice /\ SameAnswer("synthesize_advice") /\ WithinOneSecond
    \/ GenerateOutfit /\ SameAnswer("generate_outfit") /\ WithinOneSecond
    \/ Respond
    \/ Remember
    \/ Repeat

TwiceSpec == Init /\ [][TwiceNext]_vars

(***************************************************************************)
(* routers/healthcheck.py: GET /api/health.  The handler reads nothing of  *)
(* the process or of a request in flight; it is called at any time.        *)
(***************************************************************************)
health_check == [status |-> 200, body |-> [status |-> <<"ok">>]]

HealthCheck ==
    /\ health' = health_check
    /\ UNCHANGED <<pc, req, state, response, current_mode, dspy_lm, clock, nreq,
                   stub, visited, prev, received, calls>>

HealthNext == Next \/ HealthCheck

HealthSpec == Init /\ [][HealthNext]_vars

(***************************************************************************)
(* The handler with the received form kept beside what it makes of it.     *)
(* Time is left out, and of the answers of a model call one success and    *)
(* one failure are kept.                                                   *)
(***************************************************************************)
ReceiveForm ==
    \E form \in Forms, lm_ok \in BOOLEAN :
        analyze_outfit(form, lm_ok) /\ received' = form /\ UNCHANGED calls

FormNext ==
    \/ ReceiveForm
    \/ AnalyzeImage /\ UNCHANGED clock /\ Plain(stub'["analyze_image"])
    \/ FetchTrends /\ UNCHANGED clock /\ Plain(stub'["fetch_trends"])
    \/ SynthesizeAdvice /\ UNCHANGED clock /\ Plain(stub'["synthesize_advice"])
    \/ GenerateOutfit /\ UNCHANGED clock /\ Plain(stub'["generate_outfit"])
    \/ Respond
    \/ TearDown

FormSpec == Init /\ [][FormNext]_vars

(***************************************************************************)
(* agents/config.py on its own: configure_lm called again and again, one   *)
(* call after the other, with any mode text, the language model being      *)
(* buildable or not; each call is kept with its argument and its outcome.  *)
(***************************************************************************)
Configure ==
    /\ Len(calls) < MaxCalls
    /\ \E mode \in Modes, lm_ok \in BOOLEAN :
          LET cfg == configure_lm([mode |-> current_mode, lm |-> dspy_lm],
                                  mode, lm_ok)
          IN  /\ current_mode' = cfg.mode
              /\ dspy_lm' = cfg.lm
              /\ calls' = Append(calls, [mode |-> mode, lm_ok |-> lm_ok,
                                         raised |-> cfg.raised])
    /\ UNCHANGED <<pc, req, state, response, clock, nreq, stub, visited, prev,
                   health, received>>

ConfigSpec == Init /\ [][Configure]_vars

Order == <<"analyze_image", "fetch_trends", "synthesize_advice", "generate_outfit">>

Ran(node) == stub[node] # Pending

InRun == pc \in Nodes \cup {END} \/ (pc = "responded" /\ response.status = 200)

Visual == Get(state, "visual_analysis", EmptyDict)

Logs == Get(state, "agent_logs", <<>>)

\* C1: in every run the nodes executed so far are exactly the first nodes
\* of Vision, Trend, Advisory, Image Regeneration, in that order and each
\* once; control is at the next node of that order, and the run is at its
\* end (and answered with 200) only after all four have executed.
C1_StrictOrder ==
    InRun =>
        /\ Len(visited) <= Len(Order)
        /\ visited = SubSeq(Order, 1, Len(visited))
        /\ pc \in Nodes => pc = Order[Len(visited) + 1]
        /\ pc \in {END, "responded"} => visited = Order

C1_Witness == pc = END /\ visited = Order

\* C2: whatever model calls fail, a run that has entered the graph reaches
\* the end of the graph with all four nodes executed.
C2_NoEarlyTermination == (pc = EntryPoint) ~> (pc = END /\ visited = Order)

C2_Witness ==
    /\ pc = END
    /\ \A n \in Nodes \ {"analyze_image"} : stub[n].kind = "raise"
    /\ stub["analyze_image"].kind \in {"raise", "not_called"}

C4_FiveKeys ==
    /\ (InRun /\ pc # "analyze_image") => FeatureKeySet \subseteq DOMAIN Visual
    /\ response.status = 200 =>
          FeatureKeySet \subseteq DOMAIN response.body["visual_analysis"]

C4_Witness ==
    /\ response.status = 200
    /\ stub["analyze_image"].kind = "raise"
    /\ FeatureKeySet \subseteq DOMAIN response.body["visual_analysis"]

\* C5: if the Trend Stage's call failed, the run has moved on and
\* trend_summary is non-empty, starts with the template's fixed opening and
\* contains the gender_style and occasion values of visual_analysis.
C5_TrendFallback ==
    (Ran("fetch_trends") /\ stub["fetch_trends"].kind = "raise") =>
        LET ts == state["trend_summary"]
        IN  /\ InRun /\ pc \notin {"analyze_image", "fetch_trends"}
            /\ ts # <<>>
            /\ Head(ts) = "Current fashion trends for "
            /\ Contains(ts, Visual["gender_style"])
            /\ Contains(ts, Visual["occasion"])
            /\ Contains(ts, Visual["gender_style"] \o <<" ">> \o Visual["occasion"])

C5_Witness ==
    /\ pc = "synthesize_advice"
    /\ stub["fetch_trends"].kind = "raise"
    /\ Visual["gender_style"] = <<"masculine">>
    /\ Visual["occasion"] = <<"formal">>

\* C6: if the Advisory Stage's call failed, the run has moved on and
\* final_report is the one fixed apology text, whatever the query, the
\* visual analysis and the trend summary are.
C6_FixedApology ==
    (Ran("synthesize_advice") /\ stub["synthesize_advice"].kind = "raise") =>
        /\ InRun /\ pc \in {"generate_outfit", END, "responded"}
        /\ state["final_report"] =
              <<"Unable to generate personalized advice at this time", ".", " ",
                "Please try again later or consult with a fashion professional", ".">>

C6_Witness ==
    /\ pc = "generate_outfit"
    /\ stub["synthesize_advice"].kind = "raise"
    /\ state["user_query"] = DEFAULT_QUERY
    /\ stub["fetch_trends"].kind = "ok"

\* the stubbed generation call yielded usable image bytes
UsableBytes(out) ==
    /\ out.kind = "response"
    /\ TruthyBytes(_extract_image_bytes(out.response)[1])

\* C7: after the Image Regeneration Stage generated_image_url and
\* image_generation_error are never both populated, and when no usable
\* bytes were extracted the url is null and the error is non-empty.
C7_UrlXorError ==
    Ran("generate_outfit") =>
        LET url == state["generated_image_url"]
            err == state["image_generation_error"]
        IN  /\ ~(Truthy(url) /\ Truthy(err))
            /\ ~UsableBytes(stub["generate_outfit"]) => (url = None /\ Truthy(err))

C7_Witness ==
    /\ pc = END
    /\ stub["generate_outfit"].kind = "response"
    /\ stub["generate_outfit"].response # NoResponse
    /\ ~UsableBytes(stub["generate_outfit"])
    /\ state["generated_image_url"] = None

\* C8: when the image-regeneration call raised, the 200 response has no
\* generated_image_url and its image_generation_error contains the text of
\* the raised failure.
C8_ThrownTextSurfaced ==
    (response.status = 200 /\ stub["generate_outfit"].kind = "raise") =>
        /\ response.body["generated_image_url"] = None
        /\ Contains(response.body["image_generation_error"],
                    stub["generate_outfit"].msg)

\* the completion entry of the Image Regeneration Stage
GeneratorEntries == SelectSeq(Logs, LAMBDA e : e.agent = "generator")

\* C9: the Image Regeneration Stage logs exactly one terminal entry, of
\* level info when an image was produced, warning when the generation
\* returned no content, and error when the generation call raised.
C9_LevelIdentifiesOutcome ==
    Ran("generate_outfit") =>
        LET out == stub["generate_outfit"]
        IN  /\ Len(GeneratorEntries) = 2
            /\ GeneratorEntries[2].level =
                  (IF out.kind = "raise" THEN "error"
                   ELSE IF UsableBytes(out) THEN "info" ELSE "warning")

StartMessages ==
    [analyze_image |-> "Starting image analysis",
     fetch_trends |-> "Collecting trend context",
     synthesize_advice |-> "Generating styling advice",
     generate_outfit |-> "Preparing outfit visualization"]

AgentOf ==
    [analyze_image |-> "vision", fetch_trends |-> "trends",
     synthesize_advice |-> "advisor", generate_outfit |-> "generator"]

C10_TwoPerStage ==
    InRun =>
        /\ Len(Logs) = 2 * Len(visited)
        /\ \A i \in 1..Len(visited) :
              /\ Logs[2 * i - 1].agent = AgentOf[visited[i]]
              /\ Logs[2 * i - 1].message = StartMessages[visited[i]]
              /\ Logs[2 * i].agent = AgentOf[visited[i]]
              /\ Logs[2 * i].message # StartMessages[visited[i]]
        /\ pc \in {END, "responded"} => Len(Logs) = 8

C10_NoShrink ==
    pc \in Nodes => Len(Get(state', "agent_logs", <<>>)) >= Len(Logs)

\* C10: every stage appends one start entry and then one completion entry,
\* so that a finished run has eight entries, two per stage in stage order,
\* and no step of a run shortens agent_logs.
C10_LogPerStage == [](C10_TwoPerStage) /\ [][C10_NoShrink]_vars

C10_Witness ==
    /\ pc = END
    /\ Len(Logs) = 8
    /\ stub["analyze_image"].kind = "raise"
    /\ stub["generate_outfit"].kind = "raise"

(***************************************************************************)
(* Log levels, log order and log details                                   *)
(***************************************************************************)
TextStages == <<"analyze_image", "fetch_trends", "synthesize_advice">>

\* C11: the completion entry of a text stage (the second entry the stage
\* appends) has level info when the stage's model call succeeded; when it
\* failed the level is error for Vision, warning for the Trend fallback and
\* error for Advisory.
C11_CompletionLevels ==
    InRun =>
        \A i \in 1..Len(TextStages) :
            Ran(TextStages[i]) =>
                /\ Len(Logs) >= 2 * i
                /\ Logs[2 * i].agent = AgentOf[TextStages[i]]
                /\ Logs[2 * i].level =
                       IF stub[TextStages[i]].kind = "ok" THEN "info"
                       ELSE IF TextStages[i] = "fetch_trends" THEN "warning"
                       ELSE "error"

C11_Witness ==
    /\ pc = "generate_outfit"
    /\ stub["analyze_image"].kind = "ok"
    /\ stub["fetch_trends"].kind = "raise"
    /\ stub["synthesize_advice"].kind = "raise"
    /\ Logs[2].level = "info"
    /\ Logs[4].level = "warning"
    /\ Logs[6].level = "error"

IsPrefix(s, t) == Len(s) <= Len(t) /\ SubSeq(t, 1, Len(s)) = s

AgentRank == [vision |-> 1, trends |-> 2, advisor |-> 3, generator |-> 4]

C12_Ordered ==
    InRun =>
        \A i, j \in 1..Len(Logs) :
            i < j => /\ AgentRank[Logs[i].agent] <= AgentRank[Logs[j].agent]
                     /\ Logs[i].timestamp <= Logs[j].timestamp

C12_Prefix ==
    pc \in Nodes => IsPrefix(Logs, Get(state', "agent_logs", <<>>))

\* C12: agent_logs is append-only throughout a run: across every step of a
\* run the log before the step is a prefix of the log after it; the entries
\* are in stage-execution order (vision, trends, advisor, generator) and
\* their timestamps are non-decreasing along the sequence.
C12_AppendOnly == [](C12_Ordered) /\ [][C12_Prefix]_vars

C12_Witness ==
    /\ pc = END
    /\ Len(Logs) = 8
    /\ \E i \in 1..7 : Logs[i].timestamp = Logs[i + 1].timestamp
    /\ \E i \in 1..7 : Logs[i].timestamp < Logs[i + 1].timestamp

ReturnedLogs == response.body["agent_logs"]

\* C13 as stated: the agent_logs returned for a successful request contain
\* at least four entries and their timestamps, truncated to whole seconds,
\* are strictly increasing from each entry to the next.
C13_StrictlyIncreasing ==
    response.status = 200 =>
        /\ Len(ReturnedLogs) >= 4
        /\ \A i \in 1..(Len(ReturnedLogs) - 1) :
              ReturnedLogs[i].timestamp < ReturnedLogs[i + 1].timestamp

\* C13: the agent_logs returned for a successful request contain at least
\* four entries (eight, two per stage) and their timestamps, truncated to
\* whole seconds, never decrease from each entry to the next; entries
\* appended within the same second carry equal timestamps.
C13_NonDecreasing ==
    response.status = 200 =>
        /\ Len(ReturnedLogs) >= 4
        /\ Len(ReturnedLogs) = 8
        /\ \A i \in 1..(Len(ReturnedLogs) - 1) :
              ReturnedLogs[i].timestamp <= ReturnedLogs[i + 1].timestamp

C13_Witness ==
    /\ response.status = 200
    /\ Len(ReturnedLogs) = 8
    /\ ReturnedLogs[1].timestamp = ReturnedLogs[2].timestamp
    /\ ReturnedLogs[7].timestamp < ReturnedLogs[8].timestamp

\* C14: every log entry that carries details has details of at most 800
\* characters, whatever the payload: a mapping, a stage's advice or trend
\* text, or the message of an exception of any length.
C14_DetailsCapped ==
    InRun =>
        \A i \in 1..Len(Logs) :
            "details" \in DOMAIN Logs[i] => Len(Logs[i]["details"]) <= DetailsCap

(***************************************************************************)
(* Fields of the pipeline state                                            *)
(***************************************************************************)
InputFields == {"original_image", "user_query", "analysis_mode"}

C15_AsReceived ==
    InRun =>
        /\ InputFields \subseteq DOMAIN state
        /\ state["original_image"] = req.image_bytes
        /\ state["user_query"] = req.user_query
        /\ state["analysis_mode"] = req.analysis_mode

C15_Untouched ==
    pc \in Nodes =>
        \A f \in InputFields : Get(state', f, None) = Get(state, f, None)

\* C15: the request inputs original_image, user_query and analysis_mode are
\* set once when the pipeline state is built and no stage changes them: at
\* every point of a run, and in the final state, they equal what the handler
\* received.
C15_InputsImmutable == [](C15_AsReceived) /\ [][C15_Untouched]_vars

C15_Witness ==
    /\ pc = END
    /\ state["analysis_mode"] = "quick"
    /\ state["user_query"] = DEFAULT_QUERY
    /\ state["original_image"] = req.image_bytes
    /\ stub["analyze_image"].kind = "ok"

Writes ==
    [analyze_image |-> {"visual_analysis"},
     fetch_trends |-> {"trend_summary"},
     synthesize_advice |-> {"final_report"},
     generate_outfit |-> {"generated_image_url", "generation_prompt",
                          "image_generation_error"}]

\* the fields whose writers come after the i-th stage
WrittenAfter(i) == UNION {Writes[Order[j]] : j \in (i + 1)..Len(Order)}

\* the state with the given fields overwritten by a value no stage produces
Scrambled(st, fields) ==
    [f \in DOMAIN st |-> IF f \in fields THEN <<"scrambled">> ELSE st[f]]

AsBuilt == InitialState(req.image_bytes, req.user_query, req.analysis_mode)

\* a stage's step leaves every field but its own outputs and agent_logs
C16_Frame ==
    pc \in Nodes =>
        /\ DOMAIN state' = DOMAIN state
        /\ \A f \in DOMAIN state \ (Writes[pc] \cup {"agent_logs"}) :
              state'[f] = state[f]

\* the outputs of a stage that has not run yet are as the handler built them
C16_NotYetWritten ==
    pc \in Nodes \cup {END} =>
        \A n \in Nodes : ~Ran(n) => \A f \in Writes[n] : state[f] = AsBuilt[f]

\* what the stage about to run hands to its model calls, and what it returns
\* for each answer of the calls, do not depend on the fields whose writers
\* have not run yet
C16_NoReadAhead ==
    /\ pc = "analyze_image" =>
          LET blind == Scrambled(state, WrittenAfter(1))
          IN  /\ VisionArgs(blind) = VisionArgs(state)
              /\ \A out \in VisionOutcomes(state) :
                    analyze_image(blind, out, clock, clock)
                        = analyze_image(state, out, clock, clock)
    /\ pc = "fetch_trends" =>
          LET blind == Scrambled(state, WrittenAfter(2))
          IN  /\ TrendArgs(blind) = TrendArgs(state)
              /\ \A out \in TextOutcomes :
                    fetch_trends(blind, out, clock, clock)
                        = fetch_trends(state, out, clock, clock)
    /\ pc = "synthesize_advice" =>
          LET blind == Scrambled(state, WrittenAfter(3))
          IN  /\ AdvisorArgs(blind) = AdvisorArgs(state)
              /\ \A out \in TextOutcomes :
                    synthesize_advice(blind, out, clock, clock)
                        = synthesize_advice(state, out, clock, clock)

\* C16: each stage writes only its own output fields and agent_logs, every
\* output field has one writer (visual_analysis Vision, trend_summary Trend,
\* final_report Advisory, generated_image_url, generation_prompt and
\* image_generation_error Image Regeneration), a written field is not
\* changed by a later stage, and no stage reads a field whose writer has not
\* run yet.
C16_SingleWriter ==
    /\ [](C16_NotYetWritten /\ C16_NoReadAhead)
    /\ [][C16_Frame]_vars

C16_Witness ==
    /\ pc = END
    /\ stub["fetch_trends"].kind = "ok"
    /\ state["trend_summary"] = stub["fetch_trends"].text
    /\ state["trend_summary"] # <<>>
    /\ state["final_report"] = Apology
    /\ state["generated_image_url"] # <<>>

(***************************************************************************)
(* The process-wide model configuration                                    *)
(***************************************************************************)
\* the stages whose text call goes through the model DSPy is configured with
DSPyStages == {"analyze_image", "fetch_trends", "synthesize_advice"}

C17_GlobalLM ==
    /\ current_mode # NoMode => dspy_lm = LM_MAP[current_mode]
    /\ pc \in DSPyStages /\ pc' # pc =>
          /\ stub'[pc].lm = dspy_lm
          /\ dspy_lm = LM_MAP[current_mode]

\* C17: the current-mode flag and the configured model are shared by all
\* requests of the process: a stage's DSPy call runs under the model of the
\* mode that the latest configure_lm call of any request installed, so two
\* concurrent requests of different modes can interleave so that one
\* request's calls run under the other request's model variant.
C17_SharedFlag == [][C17_GlobalLM]_vars

C17_Witness ==
    /\ pc = END
    /\ req.analysis_mode = "quick"
    /\ stub["analyze_image"].lm = LM_MAP["quick"]
    /\ stub["fetch_trends"].lm = LM_MAP["deep"]
    /\ stub["synthesize_advice"].lm = LM_MAP["deep"]
    /\ stub["fetch_trends"].kind = "ok"

(***************************************************************************)
(* Repeated requests                                                       *)
(***************************************************************************)
\* C18: a request run twice in sequence with identical inputs against a
\* deterministic stub of the model dependency yields the same
\* visual_analysis, trend_summary and final_report in both runs; the log
\* timestamps may differ.
C18_Idempotent ==
    (prev.kind = "second" /\ pc \in {END, "responded"} /\ response.status # 500) =>
        /\ \A f \in OutputFields : state[f] = prev.outputs[f]
        /\ response.status = 200 =>
              \A f \in OutputFields : response.body[f] = prev.outputs[f]

C18_Witness ==
    /\ prev.kind = "second"
    /\ pc = "responded"
    /\ response.status = 200
    /\ response.body["trend_summary"] = prev.outputs["trend_summary"]
    /\ prev.stub["fetch_trends"].kind = "raise"
    /\ prev.stub["synthesize_advice"].kind = "ok"
    /\ response.body["final_report"] # <<>>
    /\ response.body["agent_logs"][8].timestamp > prev.finished

(***************************************************************************)
(* Responses                                                               *)
(***************************************************************************)
\* the upload has a name that ends in a dot and one of the allowed
\* extensions, in any letter case
NamedAsImage(r) ==
    /\ r.has_image
    /\ Len(r.filename) >= 2
    /\ r.filename[Len(r.filename) - 1] = "."
    /\ LowerExt(r.filename[Len(r.filename)]) \in {"png", "jpg", "jpeg", "gif", "webp"}

FailsValidation(r) == ~NamedAsImage(r) \/ r.image_bytes.len > MAX_FILE_SIZE

AllCallsFailed ==
    \A n \in Nodes : stub[n].kind \in {"raise", "not_called"}

C19_StatusByCause ==
    /\ response.status \in {0, 200, 400, 500}
    /\ pc = "responded" =>
          /\ response.status # 0
          /\ response.status = 400 <=> FailsValidation(req)
          /\ response.status = 500 => /\ visited = <<>>
                                      /\ stub = NoStub
                                      /\ state = EmptyDict
          /\ visited # <<>> => response.status = 200
          /\ response.status = 200 =>
                /\ visited = Order
                /\ \A f \in {"visual_analysis", "trend_summary", "final_report"} :
                      response.body[f] = state[f]

C19_RunAnswered ==
    pc \in Nodes \cup {END} =>
        /\ pc' \in Nodes \cup {END, "responded"}
        /\ pc' = "responded" => response'.status = 200

\* C19: every request that passes validation and enters the pipeline is
\* answered with 200 and the best-effort content of the run, whichever of
\* the stages' model calls fail; a response other than 200 is a 400 for a
\* request that fails validation, or a 500 for an error raised outside every
\* stage, before any stage has run.
C19_AlwaysAnswers == [](C19_StatusByCause) /\ [][C19_RunAnswered]_vars

C19_Witness ==
    /\ pc = "responded"
    /\ response.status = 200
    /\ AllCallsFailed
    /\ response.body["final_report"] = Apology
    /\ response.body["generated_image_url"] = None

C20_NothingStarted ==
    (pc # "idle" /\ ~NamedAsImage(req)) =>
        /\ pc = "responded"
        /\ response.status = 400
        /\ state = EmptyDict
        /\ visited = <<>>
        /\ stub = NoStub
        /\ ~req.has_image => response.body = [error |-> <<"No image file provided">>]

C20_NotConfigured ==
    (pc = "idle" /\ pc' # "idle" /\ ~NamedAsImage(req')) =>
        UNCHANGED <<current_mode, dspy_lm>>

\* C20: a request without an image field, with an empty filename or with a
\* filename whose extension is not png, jpg, jpeg, gif or webp is answered
\* 400 before the pipeline runs: no pipeline state is built, no stage
\* executes and configure_lm is not called; for a missing image the body is
\* {"error": "No image file provided"}.
C20_RejectedEarly == [](C20_NothingStarted) /\ [][C20_NotConfigured]_vars

C20_Witness ==
    /\ pc = "responded"
    /\ req.has_image
    /\ req.filename = <<"look", ".", "png", ".", "txt">>
    /\ response.status = 400
    /\ current_mode = NoMode

C21_Answer ==
    (pc = "responded" /\ NamedAsImage(req)) =>
        IF req.image_bytes.len > 10 * 1024 * 1024
        THEN /\ response.status = 400
             /\ Contains(response.body["error"], <<"exceeds 10MB limit">>)
             /\ state = EmptyDict
             /\ visited = <<>>
             /\ stub = NoStub
        ELSE /\ response.status # 400
             /\ "error" \in DOMAIN response.body =>
                   ~Contains(response.body["error"], <<"exceeds 10MB limit">>)

C21_NotConfigured ==
    (pc = "idle" /\ pc' # "idle" /\ NamedAsImage(req')
         /\ req'.image_bytes.len > 10 * 1024 * 1024) =>
        UNCHANGED <<current_mode, dspy_lm>>

ResponseKeys ==
    {"visual_analysis", "trend_summary", "final_report", "generated_image_url",
     "generation_prompt", "agent_logs", "analysis_mode", "image_generation_error"}

\* C22: every 200 response of the analyze endpoint is an object with exactly
\* the keys visual_analysis, trend_summary, final_report,
\* generated_image_url, generation_prompt, agent_logs, analysis_mode and
\* image_generation_error, each holding the like-named field of the final
\* state; original_image, which the final state still holds, is not among
\* them.
C22_ResponseShape ==
    response.status = 200 =>
        /\ DOMAIN response.body = ResponseKeys
        /\ "original_image" \notin DOMAIN response.body
        /\ \A k \in ResponseKeys : response.body[k] = state[k]
        /\ state["original_image"] = req.image_bytes

C22_Witness ==
    /\ response.status = 200
    /\ DOMAIN response.body = ResponseKeys
    /\ "original_image" \in DOMAIN state
    /\ response.body["generated_image_url"] # None
    /\ response.body["analysis_mode"] = "deep"

\* C23: GET /api/health returns status 200 with the body
\* {"status": "healthy"}, whatever requests came before and whatever state
\* a pipeline is in.
C23_Healthy ==
    health # NoResponseYet =>
        /\ health.status = 200
        /\ health.body = [status |-> <<"healthy">>]

(***************************************************************************)
(* What the stages return                                                  *)
(***************************************************************************)
\* the state without the fields a caller of a single stage may leave out
Sparse(st) ==
    [f \in DOMAIN st \ {"agent_logs", "visual_analysis"} |-> st[f]]

ModelFeatures(out) ==
    [gender_style |-> out.result["gender_style"], cut |-> out.result["cut"],
     color |-> out.result["color"], fabric |-> out.result["fabric"],
     occasion |-> out.result["occasion"]]

C24_InRun ==
    InRun =>
        /\ (Ran("analyze_image") /\ stub["analyze_image"].kind = "ok") =>
              state["visual_analysis"] = ModelFeatures(stub["analyze_image"])
        /\ (Ran("fetch_trends") /\ stub["fetch_trends"].kind = "ok") =>
              state["trend_summary"] = stub["fetch_trends"].text
        /\ (Ran("synthesize_advice") /\ stub["synthesize_advice"].kind = "ok") =>
              state["final_report"] = stub["synthesize_advice"].text

C24_OnSparseState ==
    /\ pc = "analyze_image" =>
          \A out \in VisionOutcomes(state) :
              out.kind = "ok" =>
                  analyze_image(Sparse(state), out, clock, clock)["visual_analysis"]
                      = ModelFeatures(out)
    /\ pc = "fetch_trends" =>
          \A out \in TextOutcomes :
              out.kind = "ok" =>
                  fetch_trends(Sparse(state), out, clock, clock)["trend_summary"]
                      = out.text
    /\ pc = "synthesize_advice" =>
          \A out \in TextOutcomes :
              out.kind = "ok" =>
                  synthesize_advice(Sparse(state), out, clock, clock)["final_report"]
                      = out.text

\* C24: when a text stage's model call succeeds the stage returns the model's
\* output unchanged in its own field: analyze_image the model's
\* gender_style, cut, color, fabric and occasion as visual_analysis,
\* fetch_trends the model's trend_summary, synthesize_advice the model's
\* advice as final_report; the same holds for a state without agent_logs and
\* visual_analysis.
C24_Passthrough == C24_InRun /\ C24_OnSparseState

C24_Witness ==
    /\ pc = "generate_outfit"
    /\ stub["analyze_image"].kind = "ok"
    /\ state["visual_analysis"]["cut"] = <<"slim", "fit">>
    /\ state["visual_analysis"]["color"] = <<"navy">>
    /\ stub["fetch_trends"].kind = "ok"
    /\ state["trend_summary"] # <<>>
    /\ stub["synthesize_advice"].kind = "ok"
    /\ state["final_report"] # <<>>

(***************************************************************************)
(* Image extraction                                                        *)
(***************************************************************************)
NothingFound == <<NoneBytes, None>>

\* what one part yields: its inline binary data, else its inline base64 text
\* when that decodes to bytes, else the bytes fetched for its file reference
Yield(part) ==
    IF part.inline.kind = "bytes" /\ part.inline.data # <<>>
    THEN <<part.inline.data, part.inline.mime>>
    ELSE IF /\ part.inline.kind = "str"
            /\ part.inline.data # <<>>
            /\ ~B64DecodeRaises(part.inline.data)
            /\ B64Decode(part.inline.data) # <<>>
    THEN <<B64Decode(part.inline.data), part.inline.mime>>
    ELSE IF /\ part.file.kind = "uri"
            /\ part.file.remote.kind = "ok"
            /\ part.file.remote.data # <<>>
    THEN <<part.file.remote.data, part.file.mime>>
    ELSE NothingFound

RECURSIVE FirstYield(_)
FirstYield(parts) ==
    IF parts = <<>> THEN NothingFound
    ELSE IF Yield(Head(parts)) # NothingFound THEN Yield(Head(parts))
    ELSE FirstYield(Tail(parts))

\* C25: extraction tries, part by part with the candidates' parts before the
\* top-level parts, inline binary data, then inline base64 data, then the
\* remote file reference, and returns the first bytes any part yields; when
\* no part yields bytes, also because a base64 payload cannot be decoded or
\* a fetch fails, it reports no content.
C25_FirstSuccessful ==
    (Ran("generate_outfit") /\ stub["generate_outfit"].kind = "response"
                            /\ stub["generate_outfit"].response # NoResponse) =>
        LET resp == stub["generate_outfit"].response
            expected == FirstYield(Flatten(resp.candidates) \o resp.parts)
            got == _extract_image_bytes(resp)
        IN  IF expected = NothingFound THEN ~TruthyBytes(got[1])
            ELSE got = expected

\* C26: when image bytes are extracted, generated_image_url is
\* data:<mime>;base64,<payload>, where <mime> is the MIME type of the
\* response part the bytes came from, or image/png when the part gives
\* none, and <payload> is the base64 text of the extracted bytes.
C26_DataUrl ==
    (Ran("generate_outfit") /\ UsableBytes(stub["generate_outfit"])) =>
        LET got == _extract_image_bytes(stub["generate_outfit"].response)
            mime == IF got[2] = None \/ got[2] = <<>> THEN <<"image/png">>
                    ELSE got[2]
            url == state["generated_image_url"]
            payload == SubSeq(url, Len(mime) + 3, Len(url))
        IN  /\ url # None
            /\ Len(url) > Len(mime) + 2
            /\ url = <<"data:">> \o mime \o <<";base64,">> \o payload
            /\ \A i \in 1..Len(payload) : IsB64Char(payload[i]) \/ payload[i] = "="
            /\ ~B64DecodeRaises(payload)
            /\ B64Decode(payload) = got[1]

C26_Witness ==
    /\ pc = END
    /\ UsableBytes(stub["generate_outfit"])
    /\ _extract_image_bytes(stub["generate_outfit"].response)[2] = <<"image/jpeg">>
    /\ state["generated_image_url"]
           = <<"data:", "image/jpeg", ";base64,", "i", "V", "B", "O", "R", "w", "=", "=">>

(***************************************************************************)
(* Modes                                                                   *)
(***************************************************************************)
\* the mode a form asks for: quick in any letter case, otherwise deep
AskedMode(form) ==
    IF form.mode \in {"quick", "QUICK", "Quick"} THEN "quick" ELSE "deep"

\* C27: the mode of a request is always quick or deep: a missing mode field
\* and any value other than quick or deep, compared without regard to
\* letter case, count as deep, for the analysis_mode in the pipeline state
\* and in the response and for the model variant configure_lm installs.
C27_ModeNormalized ==
    InRun =>
        /\ state["analysis_mode"] \in {"quick", "deep"}
        /\ state["analysis_mode"] = AskedMode(received)
        /\ req.analysis_mode = AskedMode(received)
        /\ response.status = 200 =>
              response.body["analysis_mode"] = AskedMode(received)
        /\ current_mode = AskedMode(received)
        /\ dspy_lm = IF AskedMode(received) = "quick"
                     THEN "gemini/gemini-2.5-flash" ELSE "gemini/gemini-2.5-pro"

C27_Witness ==
    /\ pc = "responded"
    /\ response.status = 200
    /\ received.mode = "fast"
    /\ response.body["analysis_mode"] = "deep"
    /\ dspy_lm = "gemini/gemini-2.5-pro"

\* the last of the first n calls that completed, 0 when none did
LastCompleted(n) ==
    IF \E i \in 1..n : ~calls[i].raised
    THEN CHOOSE i \in 1..n :
             /\ ~calls[i].raised
             /\ \A j \in (i + 1)..n : calls[j].raised
    ELSE 0

\* the current mode after the first n calls, as the claim has it
ModeAfter(n) ==
    IF LastCompleted(n) = 0 THEN NoMode ELSE AskedMode(calls[LastCompleted(n)])

\* C28: after any sequence of configure_lm calls made one after the other,
\* the current mode is the normalized mode of the most recent call that
\* completed and the configured model is the LM_MAP entry of that mode; a
\* call whose normalized mode is the current mode does not build a model
\* (it completes also when building one would fail), and a call in which
\* building or installing the model fails leaves the current mode as it
\* was.
C28_LastCompletedCall ==
    /\ current_mode = ModeAfter(Len(calls))
    /\ dspy_lm = IF current_mode = NoMode THEN NoLM
                 ELSE IF current_mode = "quick" THEN "gemini/gemini-2.5-flash"
                 ELSE "gemini/gemini-2.5-pro"
    /\ \A i \in 1..Len(calls) :
          calls[i].raised <=>
              (~calls[i].lm_ok /\ AskedMode(calls[i]) # ModeAfter(i - 1))

C28_Witness ==
    /\ Len(calls) = 3
    /\ calls[1].mode = "QUICK" /\ ~calls[1].raised
    /\ calls[2].mode = "quick" /\ ~calls[2].lm_ok /\ ~calls[2].raised
    /\ calls[3].mode = "fast" /\ calls[3].raised
    /\ current_mode = "quick"
    /\ dspy_lm = "gemini/gemini-2.5-flash"

\* the vision model the claim gives a mode
ModelOf(mode) == IF mode = "quick" THEN "gemini-2.5-flash" ELSE "gemini-2.5-pro"

\* what the Vision Stage writes when it starts with this mode and model
StartDetails(mode, model) ==
    <<"{", "\"", "mode", "\": ", "\"", mode, "\"", ", ",
      "\"", "model", "\": ", "\"", model, "\"", "}">>

\* C29: whatever a concurrent request does to the module-level mode flag,
\* the vision model of the Vision Stage's image-description call is the one
\* of the request's own analysis_mode (quick -> gemini-2.5-flash, anything
\* else -> gemini-2.5-pro): it is the model the stage is about to call and
\* the model its first log entry names.
C29_OwnVisionModel ==
    /\ pc = "analyze_image" =>
          /\ VisionArgs(state).vision_model = ModelOf(req.analysis_mode)
          /\ \A m \in Modes :
                VisionArgs([analysis_mode |-> m] @@ state).vision_model = ModelOf(m)
    /\ InRun /\ pc # "analyze_image" =>
          /\ Len(Logs) >= 1
          /\ Logs[1]["agent"] = "vision"
          /\ Logs[1]["message"] = "Starting image analysis"
          /\ Logs[1]["details"]
                = StartDetails(req.analysis_mode, ModelOf(req.analysis_mode))

C29_Witness ==
    /\ pc = "fetch_trends"
    /\ req.analysis_mode = "quick"
    /\ stub["analyze_image"].lm = LM_MAP["deep"]
    /\ current_mode = "deep"
    /\ Logs[1]["details"] = StartDetails("quick", "gemini-2.5-flash")

\* the Vision Stage of this run has failed
VisionFailed ==
    /\ pc \in {"fetch_trends", "synthesize_advice"}
    /\ Len(Logs) >= 2
    /\ Logs[2]["agent"] = "vision"
    /\ Logs[2]["message"] = "Failed to analyze image"

\* what the Trend Stage writes when it starts with these two values
TrendDetails(gender_style, occasion, mode) ==
    <<"{", "\"", "gender_style", "\": ", "\"">> \o gender_style
        \o <<"\"", ", ", "\"", "occasion", "\": ", "\"">> \o occasion
        \o <<"\"", ", ", "\"", "mode", "\": ", "\"", mode, "\"", "}">>

\* the states the two stages can be called on whose visual_analysis has
\* neither key
Keyless(st) == {Sparse(st), [visual_analysis |-> EmptyDict] @@ st}

\* C30: in a pipeline run the Trend and Advisory stages always find
\* gender_style and occasion in visual_analysis, so their defaults are not
\* used; after a Vision Stage failure both are called with "unknown" for
\* both, and the Trend Stage logs it.
C30_InRun ==
    /\ pc \in {"fetch_trends", "synthesize_advice"} =>
          /\ {"gender_style", "occasion"} \subseteq DOMAIN state["visual_analysis"]
          /\ VisionFailed =>
                /\ TrendArgs(state).gender_style = <<"unknown">>
                /\ TrendArgs(state).occasion = <<"unknown">>
                /\ AdvisorArgs(state).gender_style = <<"unknown">>
                /\ AdvisorArgs(state).occasion = <<"unknown">>
    /\ pc = "synthesize_advice" /\ VisionFailed =>
          /\ Logs[3]["message"] = "Collecting trend context"
          /\ Logs[3]["details"]
                = TrendDetails(<<"unknown">>, <<"unknown">>, req.analysis_mode)

\* ... and on a state whose visual_analysis has neither key the defaults
\* "unisex" and "casual" apply.
C30_OnKeylessState ==
    pc \in {"fetch_trends", "synthesize_advice"} =>
        \A st \in Keyless(state) :
            /\ TrendArgs(st).gender_style = <<"unisex">>
            /\ TrendArgs(st).occasion = <<"casual">>
            /\ AdvisorArgs(st).gender_style = <<"unisex">>
            /\ AdvisorArgs(st).occasion = <<"casual">>
            /\ \A out \in TextOutcomes :
                  LET logs == fetch_trends(st, out, clock, clock)["agent_logs"]
                  IN  logs[Len(logs) - 1]["details"]
                          = TrendDetails(<<"unisex">>, <<"casual">>,
                                         req.analysis_mode)

\* C30: a Vision Stage failure reaches the later stages as "unknown", and
\* the defaults "unisex" and "casual" apply only outside a pipeline run.
C30_UnknownNotDefault == C30_InRun /\ C30_OnKeylessState

C30_Witness ==
    /\ pc = END
    /\ stub["analyze_image"].kind = "raise"
    /\ state["visual_analysis"]["occasion"] = <<"unknown">>
    /\ Logs[2]["message"] = "Failed to analyze image"
    /\ Logs[3]["details"] = TrendDetails(<<"unknown">>, <<"unknown">>, "deep")
    /\ stub["synthesize_advice"].kind = "ok"

====
